---- MODULE Spec2Model ----
(***************************************************************************)
(* Model of the balance tracker of src/src/app.js: the Utils.evalMath      *)
(* expression evaluator and the Tracker ledger (load, save,                *)
(* recomputeBalance, addEntry, undo, updateExpiry, importData, exportData) *)
(* together with its storage collaborator.                                 *)
(*                                                                         *)
(* JavaScript values are records [k, n, d, t]: k is the kind, n/d the      *)
(* value of a finite number as a fraction in lowest terms (d > 0), t the   *)
(* text of a string or the source of a regular-expression literal.         *)
(* Finite numbers are exact rationals: the binary rounding error of IEEE   *)
(* doubles and the sign of zero are not modelled.                          *)
(***************************************************************************)
EXTENDS Integers, Sequences, FiniteSets, TLC

\* storage: the storage collaborator; state: this.state of the Tracker whose
\* method is called; peer: this.state of a second Tracker on the same
\* storage, when one was constructed; ret: the record of the last call
VARIABLES storage, state, peer, ret

vars == <<storage, state, peer, ret>>

(***************************************************************************)
(* Bounds of the model.                                                    *)
(***************************************************************************)
MaxHistory == 3
MaxAbsBalance == 700
MaxTextLen == 3

(***************************************************************************)
(* JavaScript values.                                                      *)
(***************************************************************************)
Abs(x) == IF x < 0 THEN -x ELSE x

RECURSIVE GCD(_, _)
GCD(a, b) == IF b = 0 THEN a ELSE GCD(b, a % b)

Undef == [k |-> "undefined", n |-> 0, d |-> 1, t |-> ""]
Null == [k |-> "null", n |-> 0, d |-> 1, t |-> ""]
NaN == [k |-> "nan", n |-> 0, d |-> 1, t |-> ""]
PInf == [k |-> "inf", n |-> 0, d |-> 1, t |-> ""]
NInf == [k |-> "ninf", n |-> 0, d |-> 1, t |-> ""]
EmptyObj == [k |-> "object", n |-> 0, d |-> 1, t |-> ""]
True == [k |-> "bool", n |-> 1, d |-> 1, t |-> ""]
False == [k |-> "bool", n |-> 0, d |-> 1, t |-> ""]
Str(s) == [k |-> "str", n |-> 0, d |-> 1, t |-> s]
RegExpLit(s) == [k |-> "regexp", n |-> 0, d |-> 1, t |-> s]

\* the finite number a/b (b # 0), in lowest terms
Num(a, b) ==
  LET s == IF b < 0 THEN -1 ELSE 1
      g == GCD(Abs(a), Abs(b))
  IN  [k |-> "num", n |-> (s * a) \div g, d |-> (s * b) \div g, t |-> ""]

IntV(a) == Num(a, 1)

Sign(v) == IF v.k = "inf" THEN 1 ELSE IF v.k = "ninf" THEN -1
           ELSE IF v.n > 0 THEN 1 ELSE IF v.n < 0 THEN -1 ELSE 0

SignedInf(s) == IF s > 0 THEN PInf ELSE IF s < 0 THEN NInf ELSE NaN

(***************************************************************************)
(* Text scanning helpers (strings are indexed from 1).                     *)
(***************************************************************************)
Ch(s, i) == IF i >= 1 /\ i <= Len(s) THEN SubSeq(s, i, i) ELSE ""

Digits == {"0", "1", "2", "3", "4", "5", "6", "7", "8", "9"}

IsDigit(c) == c \in Digits

DigitVal(c) ==
  CASE c = "0" -> 0 [] c = "1" -> 1 [] c = "2" -> 2 [] c = "3" -> 3
    [] c = "4" -> 4 [] c = "5" -> 5 [] c = "6" -> 6 [] c = "7" -> 7
    [] c = "8" -> 8 [] OTHER -> 9

RECURSIVE Pow10(_)
Pow10(e) == IF e = 0 THEN 1 ELSE 10 * Pow10(e - 1)

\* index just after the run of digits that starts at i
RECURSIVE ScanDigits(_, _)
ScanDigits(s, i) == IF IsDigit(Ch(s, i)) THEN ScanDigits(s, i + 1) ELSE i

\* value in the given base of the digits s[i..j-1]
RECURSIVE DigitsValue(_, _, _, _)
DigitsValue(s, i, j, base) ==
  IF j <= i THEN 0
  ELSE DigitsValue(s, i, j - 1, base) * base + DigitVal(Ch(s, j - 1))

\* index of the first non-whitespace character at or after i
RECURSIVE SkipSpace(_, _)
SkipSpace(s, i) == IF Ch(s, i) = " " THEN SkipSpace(s, i + 1) ELSE i

\* String.prototype.trim
RECURSIVE TrimEnd(_)
TrimEnd(s) ==
  IF Len(s) > 0 /\ Ch(s, Len(s)) = " " THEN TrimEnd(SubSeq(s, 1, Len(s) - 1))
  ELSE s

Trim(s) == LET i == SkipSpace(s, 1) IN TrimEnd(SubSeq(s, i, Len(s)))

(***************************************************************************)
(* A numeric literal of the JavaScript lexical grammar starting at i:      *)
(* decimal digits with an optional fraction, or a legacy octal literal     *)
(* (a leading 0 followed by octal digits, as non-strict code reads it).    *)
(* Gives the value and the index after the literal.                        *)
(***************************************************************************)
NumLiteral(s, i) ==
  LET ie == ScanDigits(s, i)
      legacy == ie - i >= 2 /\ Ch(s, i) = "0"
      octal == legacy /\ \A j \in i..(ie - 1) : DigitVal(Ch(s, j)) < 8
      hasDot == Ch(s, ie) = "."
      fe == IF hasDot THEN ScanDigits(s, ie + 1) ELSE ie
      fl == IF hasDot THEN fe - ie - 1 ELSE 0
  IN  IF octal THEN [v |-> IntV(DigitsValue(s, i, ie, 8)), next |-> ie]
      ELSE [v |-> Num(DigitsValue(s, i, ie, 10) * Pow10(fl)
                        + DigitsValue(s, ie + 1, fe, 10), Pow10(fl)),
            next |-> fe]

StartsNumber(s, i) ==
  IsDigit(Ch(s, i)) \/ (Ch(s, i) = "." /\ IsDigit(Ch(s, i + 1)))

(***************************************************************************)
(* Conversions and arithmetic of JavaScript values.                        *)
(***************************************************************************)
\* decimal digits of the fraction r/d (0 <= r < d), at most m of them
RECURSIVE FracDigits(_, _, _)
FracDigits(r, d, m) ==
  IF r = 0 \/ m = 0 THEN ""
  ELSE ToString((r * 10) \div d) \o FracDigits((r * 10) % d, d, m - 1)

NumToString(v) ==
  LET a == Abs(v.n)
      ip == a \div v.d
      fr == FracDigits(a % v.d, v.d, 16)
  IN  (IF v.n < 0 THEN "-" ELSE "") \o ToString(ip)
        \o (IF fr = "" THEN "" ELSE "." \o fr)

\* ToString of a value, as the + operator applies it
JsToString(v) ==
  CASE v.k = "str" -> v.t
    [] v.k = "regexp" -> v.t
    [] v.k = "object" -> "[object Object]"
    [] v.k = "undefined" -> "undefined"
    [] v.k = "null" -> "null"
    [] v.k = "bool" -> (IF v.n = 1 THEN "true" ELSE "false")
    [] v.k = "nan" -> "NaN"
    [] v.k = "inf" -> "Infinity"
    [] v.k = "ninf" -> "-Infinity"
    [] OTHER -> NumToString(v)

\* Number(string): an optionally signed decimal literal, blank is 0
StringToNumber(s) ==
  LET u == Trim(s)
      sg == IF Ch(u, 1) = "-" THEN -1 ELSE 1
      b == IF Ch(u, 1) \in {"+", "-"} THEN 2 ELSE 1
      ie == ScanDigits(u, b)
      hasDot == Ch(u, ie) = "."
      fe == IF hasDot THEN ScanDigits(u, ie + 1) ELSE ie
      fl == IF hasDot THEN fe - ie - 1 ELSE 0
  IN  IF u = "" THEN IntV(0)
      ELSE IF SubSeq(u, b, Len(u)) = "Infinity" THEN SignedInf(sg)
      ELSE IF fe = Len(u) + 1 /\ (ie - b) + fl >= 1
        THEN Num(sg * (DigitsValue(u, b, ie, 10) * Pow10(fl)
                         + DigitsValue(u, ie + 1, fe, 10)), Pow10(fl))
      ELSE NaN

ToNumber(v) ==
  CASE v.k = "undefined" -> NaN
    [] v.k = "null" -> IntV(0)
    [] v.k = "bool" -> IntV(v.n)
    [] v.k = "str" -> StringToNumber(v.t)
    [] v.k \in {"regexp", "object"} -> NaN
    [] OTHER -> v

NumAdd(a, b) ==
  IF a.k = "nan" \/ b.k = "nan" THEN NaN
  ELSE IF a.k = "num" /\ b.k = "num" THEN Num(a.n * b.d + b.n * a.d, a.d * b.d)
  ELSE IF a.k = "num" THEN b
  ELSE IF b.k = "num" THEN a
  ELSE IF a.k = b.k THEN a ELSE NaN

NumNeg(a) ==
  CASE a.k = "num" -> Num(-a.n, a.d)
    [] a.k = "inf" -> NInf
    [] a.k = "ninf" -> PInf
    [] OTHER -> NaN

NumMul(a, b) ==
  IF a.k = "nan" \/ b.k = "nan" THEN NaN
  ELSE IF a.k = "num" /\ b.k = "num" THEN Num(a.n * b.n, a.d * b.d)
  ELSE SignedInf(Sign(a) * Sign(b))

NumDiv(a, b) ==
  IF a.k = "nan" \/ b.k = "nan" THEN NaN
  ELSE IF a.k = "num" /\ b.k = "num"
    THEN IF b.n = 0 THEN SignedInf(Sign(a)) ELSE Num(a.n * b.d, a.d * b.n)
  ELSE IF a.k = "num" THEN IntV(0)
  ELSE IF b.k = "num" THEN SignedInf(Sign(a) * (IF b.n < 0 THEN -1 ELSE 1))
  ELSE NaN

RECURSIVE IntPow(_, _)
IntPow(b, e) == IF e = 0 THEN 1 ELSE b * IntPow(b, e - 1)

\* the ** operator.  A positive base other than 1 with a fractional
\* exponent has an irrational result, which the exact rationals cannot
\* hold: the input texts of the model keep exponents integral, and that
\* one branch (the last NaN of the fractional case) is never evaluated.
NumPow(a, b) ==
  IF b.k = "nan" THEN NaN
  ELSE IF b.k = "num" /\ b.n = 0 THEN IntV(1)
  ELSE IF a.k = "nan" THEN NaN
  ELSE IF a.k = "num" /\ b.k = "num" /\ b.d = 1
    THEN IF b.n > 0 THEN Num(IntPow(a.n, b.n), IntPow(a.d, b.n))
         ELSE IF a.n = 0 THEN PInf
         ELSE Num(IntPow(a.d, -b.n), IntPow(a.n, -b.n))
  ELSE IF a.k = "num" /\ b.k = "num"
    THEN IF a.n < 0 THEN NaN
         ELSE IF a.n = 0 THEN (IF b.n > 0 THEN IntV(0) ELSE PInf)
         ELSE IF a.n = a.d THEN IntV(1)
         ELSE NaN
  ELSE IF a.k = "num"
    THEN IF Abs(a.n) = a.d THEN NaN
         ELSE IF (Abs(a.n) > a.d) = (b.k = "inf") THEN PInf ELSE IntV(0)
  ELSE IF b.k = "ninf" \/ (b.k = "num" /\ b.n < 0) THEN IntV(0)
  ELSE IF a.k = "ninf" /\ b.k = "num" /\ b.d = 1 /\ b.n % 2 = 1 THEN NInf
  ELSE PInf

\* the binary + operator: string concatenation as soon as one operand is
\* a string or an object, numeric addition otherwise
JsAdd(a, b) ==
  IF a.k \in {"str", "regexp", "object"} \/ b.k \in {"str", "regexp", "object"}
    THEN Str(JsToString(a) \o JsToString(b))
  ELSE NumAdd(ToNumber(a), ToNumber(b))

JsSub(a, b) == NumAdd(ToNumber(a), NumNeg(ToNumber(b)))
JsMul(a, b) == NumMul(ToNumber(a), ToNumber(b))
JsDiv(a, b) == NumDiv(ToNumber(a), ToNumber(b))
JsPow(a, b) == NumPow(ToNumber(a), ToNumber(b))

\* Math.round: the nearest integer, a tie going towards +Infinity
MathRound(v) ==
  LET x == ToNumber(v)
  IN  IF x.k = "num" THEN IntV((2 * x.n + x.d) \div (2 * x.d)) ELSE x

\* two decimal places, rounding half away from zero
round2(v) ==
  LET x == ToNumber(v)
      a == Abs(x.n)
      q == (200 * a + x.d) \div (2 * x.d)
  IN  IF x.k = "num" THEN Num((IF x.n < 0 THEN -1 ELSE 1) * q, 100) ELSE x


(***************************************************************************)
(* Utils.evalMath.  The text is first matched against the whitelist        *)
(* /^[0-9+\-*/().\s]+$/ and then run as the JavaScript source              *)
(* "return (" + expr + ")".  The evaluation is modelled by a tokenizer     *)
(* and a parser of the part of the JavaScript expression grammar that      *)
(* whitelisted characters can spell: numeric literals, the operators       *)
(* + - * / **, unary + and -, parentheses, comments and regular-expression *)
(* literals; ++, --, a call, a member access and every other ill-formed    *)
(* text throw.  The space is the only whitespace character of the model.   *)
(***************************************************************************)
Allowed == Digits \cup {"+", "-", "*", "/", "(", ")", ".", " "}

\* the whitelist test without the anchor at the end: /^[0-9+\-*/().\s]/
WhitelistOkFirstChar(expr) == Len(expr) >= 1 /\ Ch(expr, 1) \in Allowed

WhitelistOk(expr) ==
  Len(expr) >= 1 /\ \A i \in 1..Len(expr) : Ch(expr, i) \in Allowed

Tok(t, o, v) == [t |-> t, o |-> o, v |-> v]
OpTok(o) == Tok("op", o, Undef)

\* index of the first occurrence of the two characters a b at or after i,
\* 0 if there is none
RECURSIVE FindPair(_, _, _, _)
FindPair(s, i, a, b) ==
  IF i + 1 > Len(s) THEN 0
  ELSE IF Ch(s, i) = a /\ Ch(s, i + 1) = b THEN i
  ELSE FindPair(s, i + 1, a, b)

\* index of the first "/" at or after i, 0 if there is none
RECURSIVE FindSlash(_, _)
FindSlash(s, i) ==
  IF i > Len(s) THEN 0
  ELSE IF Ch(s, i) = "/" THEN i
  ELSE FindSlash(s, i + 1)

\* the pattern s[a..b] of a regular-expression literal is well formed:
\* groups are balanced and each quantifier * or + follows an atom
RECURSIVE RegexBodyOk(_, _, _, _, _)
RegexBodyOk(s, a, b, depth, canQ) ==
  IF a > b THEN depth = 0
  ELSE LET c == Ch(s, a)
       IN  IF c = "(" THEN RegexBodyOk(s, a + 1, b, depth + 1, FALSE)
           ELSE IF c = ")"
             THEN depth > 0 /\ RegexBodyOk(s, a + 1, b, depth - 1, TRUE)
           ELSE IF c \in {"*", "+"}
             THEN canQ /\ RegexBodyOk(s, a + 1, b, depth, FALSE)
           ELSE RegexBodyOk(s, a + 1, b, depth, TRUE)

NoToks == [ok |-> FALSE, toks |-> <<>>]

Cons(tk, r) == IF r.ok THEN [ok |-> TRUE, toks |-> <<tk>> \o r.toks] ELSE r

\* the tokens of s from index i on; operand tells whether the previous
\* token ends an operand, which makes a "/" a division and not the start
\* of a regular-expression literal
RECURSIVE Tokenize(_, _, _)

NumToken(s, lit) == Cons(Tok("num", "", lit.v), Tokenize(s, lit.next, TRUE))

\* a comment that started with /* and ends at e (0: it does not end)
CommentToken(s, e, operand) ==
  IF e = 0 THEN NoToks ELSE Tokenize(s, e + 2, operand)

\* a regular-expression literal from i to the "/" at e (0: there is none);
\* a digit right after it is an invalid flag
RegexToken(s, i, e) ==
  IF e = 0 THEN NoToks
  ELSE IF ~RegexBodyOk(s, i + 1, e - 1, 0, FALSE) THEN NoToks
  ELSE IF IsDigit(Ch(s, e + 1)) THEN NoToks
  ELSE Cons(Tok("re", "", RegExpLit(SubSeq(s, i, e))),
            Tokenize(s, e + 1, TRUE))

Punctuator(s, i, c, c2) ==
  IF c \in {"+", "-", "*"} /\ c2 = c
    THEN Cons(OpTok(c \o c), Tokenize(s, i + 2, FALSE))
  ELSE IF c \in {"+", "-", "*", "/", "(", ".", ")"}
    THEN Cons(OpTok(c), Tokenize(s, i + 1, c = ")"))
  ELSE NoToks

TokenAt(s, i, operand, c, c2) ==
  IF c = " " THEN Tokenize(s, i + 1, operand)
  ELSE IF StartsNumber(s, i) THEN NumToken(s, NumLiteral(s, i))
  ELSE IF c = "/" /\ c2 = "/" THEN [ok |-> TRUE, toks |-> <<>>]
  ELSE IF c = "/" /\ c2 = "*"
    THEN CommentToken(s, FindPair(s, i + 2, "*", "/"), operand)
  ELSE IF c = "/" /\ ~operand THEN RegexToken(s, i, FindSlash(s, i + 1))
  ELSE Punctuator(s, i, c, c2)

Tokenize(s, i, operand) ==
  IF i > Len(s) THEN [ok |-> TRUE, toks |-> <<>>]
  ELSE TokenAt(s, i, operand, Ch(s, i), Ch(s, i + 1))

Fail == [ok |-> FALSE, v |-> Undef, i |-> 0]
Parsed(v, i) == [ok |-> TRUE, v |-> v, i |-> i]

OpAt(ts, i) == IF i <= Len(ts) THEN ts[i].o ELSE ""

RECURSIVE ParseAdd(_, _), ParseAddRest(_, _), ParseMul(_, _),
          ParseMulRest(_, _), ParseExp(_, _), ParseUnary(_, _),
          ParsePostfix(_, _), ParsePrimary(_, _)

\* the value of the binary operator o
Binary(o, a, b) ==
  CASE o = "+" -> JsAdd(a, b)
    [] o = "-" -> JsSub(a, b)
    [] o = "*" -> JsMul(a, b)
    [] o = "/" -> JsDiv(a, b)
    [] OTHER -> JsPow(a, b)

\* the ")" that ends the parenthesized expression r
CloseParen(ts, r) ==
  IF r.ok /\ OpAt(ts, r.i) = ")" THEN Parsed(r.v, r.i + 1) ELSE Fail

\* a numeric or regular-expression literal, or a parenthesized expression
ParsePrimary(ts, i) ==
  IF i > Len(ts) THEN Fail
  ELSE IF ts[i].t \in {"num", "re"} THEN Parsed(ts[i].v, i + 1)
  ELSE IF ts[i].o = "(" THEN CloseParen(ts, ParseAdd(ts, i + 1))
  ELSE Fail

\* a call of a value that is no function, a member access without a name
\* and an update of a value that is no reference all throw
NoPostfix(ts, r) ==
  IF r.ok /\ OpAt(ts, r.i) \in {"(", ".", "++", "--"} THEN Fail ELSE r

ParsePostfix(ts, i) == NoPostfix(ts, ParsePrimary(ts, i))

\* unary + and -: ToNumber of the operand, negated for -
ApplyUnary(o, r) ==
  IF ~r.ok THEN Fail
  ELSE IF o = "+" THEN Parsed(ToNumber(r.v), r.i)
  ELSE Parsed(NumNeg(ToNumber(r.v)), r.i)

ParseUnary(ts, i) ==
  IF OpAt(ts, i) \in {"+", "-"}
    THEN ApplyUnary(ts[i].o, ParseUnary(ts, i + 1))
  ELSE ParsePostfix(ts, i)

Power(b, e) == IF e.ok THEN Parsed(JsPow(b.v, e.v), e.i) ELSE Fail

\* ** binds tighter than * and /, associates to the right, and may not
\* have a unary expression as its base
ExpTail(ts, unary, b) ==
  IF b.ok /\ OpAt(ts, b.i) = "**"
    THEN IF unary THEN Fail ELSE Power(b, ParseExp(ts, b.i + 1))
  ELSE b

ParseExp(ts, i) == ExpTail(ts, OpAt(ts, i) \in {"+", "-"}, ParseUnary(ts, i))

MulStep(ts, l, r) ==
  IF r.ok THEN ParseMulRest(ts, Parsed(Binary(ts[l.i].o, l.v, r.v), r.i))
  ELSE Fail

ParseMulRest(ts, l) ==
  IF l.ok /\ OpAt(ts, l.i) \in {"*", "/"}
    THEN MulStep(ts, l, ParseExp(ts, l.i + 1))
  ELSE l

ParseMul(ts, i) == ParseMulRest(ts, ParseExp(ts, i))

AddStep(ts, l, r) ==
  IF r.ok THEN ParseAddRest(ts, Parsed(Binary(ts[l.i].o, l.v, r.v), r.i))
  ELSE Fail

ParseAddRest(ts, l) ==
  IF l.ok /\ OpAt(ts, l.i) \in {"+", "-"}
    THEN AddStep(ts, l, ParseMul(ts, l.i + 1))
  ELSE l

ParseAdd(ts, i) == ParseAddRest(ts, ParseMul(ts, i))

\* the outcome of a call: a returned value or a thrown error
Returned(v) == [threw |-> FALSE, err |-> "", v |-> v]
Thrown(e) == [threw |-> TRUE, err |-> e, v |-> Undef]

\* the value of the whole token sequence, which must be one expression
WholeExpr(ts, r) ==
  IF r.ok /\ r.i = Len(ts) + 1 THEN Returned(r.v) ELSE Thrown("Error")

RunTokens(tz) ==
  IF tz.ok THEN WholeExpr(tz.toks, ParseAdd(tz.toks, 1)) ELSE Thrown("Error")

\* Function("return (" + expr + ")")()
RunFunction(expr) == RunTokens(Tokenize("(" \o expr \o ")", 1, FALSE))

evalMath(expr) ==
  IF ~WhitelistOk(expr) THEN Thrown("bad") ELSE RunFunction(expr)


(***************************************************************************)
(* The ledger state and its serialized form.                               *)
(*                                                                         *)
(* this.state is whatever load or importData put there: an object with     *)
(* the fields version, balance, expiry and history (a missing field reads  *)
(* as undefined), or a primitive value that a stored text parsed to.       *)
(* history is an array of entry objects, or some other value.              *)
(***************************************************************************)
Arr(items) == [isArr |-> TRUE, other |-> Undef, items |-> items]
NotArr(v) == [isArr |-> FALSE, other |-> v, items |-> <<>>]

Entry(ts, expr, desc, delta, balance) ==
  [ts |-> ts, expr |-> expr, desc |-> desc, delta |-> delta,
   balance |-> balance]

ObjState(version, balance, expiry, history) ==
  [isObj |-> TRUE, prim |-> Undef, version |-> version, balance |-> balance,
   expiry |-> expiry, history |-> history]

PrimState(v) ==
  [isObj |-> FALSE, prim |-> v, version |-> Undef, balance |-> Undef,
   expiry |-> Undef, history |-> NotArr(Undef)]

\* there is no second Tracker
NoTracker == PrimState(Undef)

\* the values the operators ! and || take as false
Falsy(v) ==
  \/ v.k \in {"undefined", "null", "nan"}
  \/ v.k \in {"num", "bool"} /\ v.n = 0
  \/ v.k = "str" /\ v.t = ""

\* what JSON.stringify writes for a value: null for a non-finite number,
\* {} for an object without own enumerable properties; a property whose
\* value is undefined is left out, which reads back as undefined
JsonValue(v) ==
  CASE v.k \in {"nan", "inf", "ninf"} -> Null
    [] v.k \in {"regexp", "object"} -> EmptyObj
    [] OTHER -> v

JsonEntry(h) ==
  Entry(JsonValue(h.ts), JsonValue(h.expr), JsonValue(h.desc),
        JsonValue(h.delta), JsonValue(h.balance))

JsonHistory(h) ==
  IF h.isArr THEN Arr([i \in 1..Len(h.items) |-> JsonEntry(h.items[i])])
  ELSE NotArr(JsonValue(h.other))

JsonState(s) ==
  IF s.isObj
    THEN ObjState(JsonValue(s.version), JsonValue(s.balance),
                  JsonValue(s.expiry), JsonHistory(s.history))
  ELSE PrimState(JsonValue(s.prim))

\* a text is the JSON document it spells and its layout, or no JSON at all
Garbage == [fmt |-> "garbage", doc |-> PrimState(Undef)]
JsonText(doc) == [fmt |-> "compact", doc |-> doc]

\* JSON.stringify(value) and JSON.stringify(value, null, 2)
JSONstringify(s) == [fmt |-> "compact", doc |-> JsonState(s)]
JSONstringifyPretty(s) == [fmt |-> "pretty", doc |-> JsonState(s)]

\* JSON.parse(text): the value of the document, or a SyntaxError
JSONparse(text) ==
  IF text.fmt = "garbage" THEN [threw |-> TRUE, val |-> PrimState(Undef)]
  ELSE [threw |-> FALSE, val |-> text.doc]

(***************************************************************************)
(* The storage collaborator: absent (null), or a key-value store holding   *)
(* at most one text under KEY; the read of an unreadable store throws.     *)
(***************************************************************************)
NoItem == [has |-> FALSE, text |-> Garbage]
Item(text) == [has |-> TRUE, text |-> text]

NoStorage == [present |-> FALSE, unreadable |-> FALSE, item |-> NoItem]
Store(item) == [present |-> TRUE, unreadable |-> FALSE, item |-> item]
UnreadableStore == [present |-> TRUE, unreadable |-> TRUE, item |-> NoItem]

\* Utils.todayISO(): the date of the run
todayISO == "2024-01-01"

DefaultState ==
  ObjState(IntV(1), IntV(0), Str(todayISO), Arr(<<>>))

\* load without the || fallback: a key without a value gives null
loadNoFallback(st) ==
  IF ~st.present THEN DefaultState
  ELSE IF st.unreadable THEN DefaultState
  ELSE IF ~st.item.has THEN PrimState(Null)
  ELSE LET p == JSONparse(st.item.text)
       IN  IF p.threw THEN DefaultState ELSE p.val

\* Tracker.load
load(st) ==
  IF ~st.present THEN DefaultState
  ELSE IF st.unreadable THEN DefaultState
  ELSE IF ~st.item.has THEN DefaultState
  ELSE LET p == JSONparse(st.item.text)
       IN  IF p.threw THEN DefaultState
           ELSE IF ~p.val.isObj /\ Falsy(p.val.prim) THEN DefaultState
           ELSE p.val

\* save, were it to write the balance alone into the snapshot in place
saveBalanceOnly(st, s) ==
  IF ~st.present THEN st
  ELSE IF st.item.has /\ st.item.text.fmt # "garbage" /\ st.item.text.doc.isObj
    THEN [st EXCEPT !.item =
            Item(JSONstringify([st.item.text.doc EXCEPT
                                  !.balance = s.balance]))]
  ELSE [st EXCEPT !.item = Item(JSONstringify(s))]

\* Tracker.save: the storage after the call
save(st, s) ==
  IF st.present THEN [st EXCEPT !.item = Item(JSONstringify(s))] ELSE st

\* the number of setItem calls that save makes
saveWrites(st) == IF st.present THEN 1 ELSE 0

\* history.reduce((sum, h) => sum + h.delta, 0)
RECURSIVE SumDeltas(_)
SumDeltas(items) ==
  IF items = <<>> THEN IntV(0)
  ELSE JsAdd(SumDeltas(SubSeq(items, 1, Len(items) - 1)),
             items[Len(items)].delta)

\* Math.round((balance + delta) * 100) / 100
RoundedSum(balance, delta) ==
  JsDiv(MathRound(JsMul(JsAdd(balance, delta), IntV(100))), IntV(100))

\* exportData()
exportData(s) == JSONstringifyPretty(s)


(***************************************************************************)
(* Inputs of the operations.                                               *)
(***************************************************************************)
\* texts typed into addEntry
ExprTexts == {"100", "0.004", "1/0", " ", "1+", "10+20;"}

\* amounts typed into addEntry with a sign, with blanks around them, and
\* with half a cent
AmountTexts == {"0.005", "-0.005", " 0.015 ", "-0.015", "+1", " -1"}

\* values of Date.now(), in milliseconds; the Tracker stores the value in
\* the entry and never reads it back
Timestamps == {1000}

Descs == {"rent"}

\* dates given to updateExpiry
Dates == {"2024-02-01"}

\* the backup of tests/app.test.js
BackupDoc ==
  ObjState(IntV(1), IntV(500), Str("2023-12-31"),
           Arr(<<Entry(IntV(123), Str("+500"), Str("imp"), IntV(500),
                       IntV(500))>>))

\* a snapshot that has only the two fields importData looks at
LaxDoc == ObjState(IntV(2), Undef, Undef, Arr(<<>>))

NoVersionDoc == ObjState(Undef, IntV(5), Str("2023-12-31"), Arr(<<>>))

NoHistoryDoc == ObjState(IntV(1), IntV(7), Str("2023-12-31"), NotArr(Undef))

\* texts given to importData
PayloadTexts ==
  {Garbage, JsonText(BackupDoc), JsonText(LaxDoc), JsonText(NoVersionDoc),
   JsonText(NoHistoryDoc)}

\* the texts and payloads given to two Trackers that share a storage
SharedTexts == {"100", "0.004"}

SharedPayloads == {JsonText(BackupDoc), JsonText(NoVersionDoc)}

\* texts found under KEY when the Tracker is constructed
StoredTexts ==
  PayloadTexts \cup {JsonText(PrimState(IntV(5))), JsonText(PrimState(Null))}

InitialStorages ==
  {NoStorage, UnreadableStore, Store(NoItem)}
    \cup {Store(Item(t)) : t \in StoredTexts}

(***************************************************************************)
(* The operations.  ret records the last call: its name and argument,     *)
(* whether it threw and what, the value it returned and the number of      *)
(* setItem calls it made.                                                  *)
(***************************************************************************)
Ret(op, arg, threw, err, v, writes) ==
  [op |-> op, arg |-> arg, threw |-> threw, err |-> err, v |-> v,
   writes |-> writes]

\* a call that throws before it changes anything
Throws(op, arg, err) ==
  /\ ret' = Ret(op, arg, TRUE, err, Undef, 0)
  /\ UNCHANGED <<storage, state, peer>>

\* new Tracker(storage)
Construct ==
  /\ state' = load(storage)
  /\ ret' = Ret("constructor", "", FALSE, "", Undef, 0)
  /\ UNCHANGED <<storage, peer>>

\* the text addEntry evaluates, were "+" put before every text
cleanExprOfAlwaysPlus(expr) == "+" \o Trim(expr)

\* the text addEntry evaluates: trimmed, with a leading sign
cleanExprOf(expr) ==
  LET trimmed == Trim(expr)
  IN  IF Ch(trimmed, 1) \in {"+", "-", "*", "/"} THEN trimmed
      ELSE "+" \o trimmed

\* the model keeps finite balances within MaxAbsBalance
InBalanceBound(v) == v.k = "num" => Abs(v.n) <= MaxAbsBalance * v.d

\* evalMath of each text that addEntry hands to it
evalMathOf ==
  [e \in {cleanExprOf(x) : x \in ExprTexts \cup AmountTexts} |-> evalMath(e)]

\* addEntry from the push on, were the entry put first (unshift)
PushEntryFirst(expr, entry, delta) ==
  IF ~state.history.isArr
    THEN /\ state' = [state EXCEPT !.balance = entry.balance]
         /\ ret' = Ret("addEntry", expr, TRUE, "TypeError", Undef, 0)
         /\ UNCHANGED <<storage, peer>>
  ELSE /\ state' = [state EXCEPT
                      !.balance = entry.balance,
                      !.history = Arr(<<entry>> \o state.history.items)]
       /\ storage' = save(storage, state')
       /\ ret' = Ret("addEntry", expr, FALSE, "", delta, saveWrites(storage))
       /\ UNCHANGED peer

\* addEntry from the push on: the entry is appended and the state saved;
\* the push throws when history is not an array, the balance being set
PushEntry(expr, entry, delta) ==
  IF ~state.history.isArr
    THEN /\ state' = [state EXCEPT !.balance = entry.balance]
         /\ ret' = Ret("addEntry", expr, TRUE, "TypeError", Undef, 0)
         /\ UNCHANGED <<storage, peer>>
  ELSE /\ state' = [state EXCEPT
                      !.balance = entry.balance,
                      !.history = Arr(Append(state.history.items, entry))]
       /\ storage' = save(storage, state')
       /\ ret' = Ret("addEntry", expr, FALSE, "", delta, saveWrites(storage))
       /\ UNCHANGED peer

\* addEntry once the new balance is computed; the assignment to a field
\* of a state that is a primitive value throws
SetBalance(expr, cleanExpr, desc, ts, delta, newBalance) ==
  IF ~state.isObj THEN Throws("addEntry", expr, "TypeError")
  ELSE /\ InBalanceBound(newBalance)
       /\ PushEntry(expr,
                    Entry(IntV(ts), Str(cleanExpr), Str(desc), delta,
                          newBalance),
                    delta)

\* addEntry once evalMath has given its outcome r
AddDelta(expr, cleanExpr, desc, ts, r) ==
  IF r.threw THEN Throws("addEntry", expr, r.err)
  ELSE SetBalance(expr, cleanExpr, desc, ts, r.v,
                  RoundedSum(state.balance, r.v))

\* addEntry once the text is trimmed and signed
AddClean(expr, cleanExpr, desc, ts) ==
  IF Trim(expr) = "" THEN Throws("addEntry", expr, "Empty expression")
  ELSE AddDelta(expr, cleanExpr, desc, ts, evalMathOf[cleanExpr])

\* Tracker.addEntry
AddEntry(expr, desc, ts) ==
  /\ Len(state.history.items) < MaxHistory
  /\ AddClean(expr, cleanExprOf(expr), desc, ts)

\* Tracker.recomputeBalance applied to a state; threw tells a TypeError
recomputeBalance(s) ==
  IF s.isObj /\ s.history.isArr
    THEN [threw |-> FALSE,
          val |-> [s EXCEPT !.balance = SumDeltas(s.history.items)]]
  ELSE [threw |-> TRUE, val |-> s]

\* history.length of a value that is not an array, as ! reads it:
\* reading it from undefined or null throws
LengthThrows(h) == ~h.isArr /\ h.other.k \in {"undefined", "null"}
\* the length test without the empty case
LengthFalsyNoEmpty(h) ==
  IF h.isArr THEN FALSE
  ELSE ~(h.other.k = "str" /\ Len(h.other.t) > 0)

LengthFalsy(h) ==
  IF h.isArr THEN h.items = <<>>
  ELSE ~(h.other.k = "str" /\ Len(h.other.t) > 0)

\* history.pop() of a non-empty array
popped(s) ==
  [s EXCEPT !.history = Arr(SubSeq(s.history.items, 1,
                                   Len(s.history.items) - 1))]

\* the state undo leaves when the history is a non-empty array: the last
\* entry is popped and the balance recomputed
undone(s) == recomputeBalance(popped(s)).val

\* Tracker.undo
Undo ==
  LET h == state.history
      s2 == undone(state)
  IN  /\ IF ~state.isObj \/ LengthThrows(h) THEN Throws("undo", "", "TypeError")
         ELSE IF LengthFalsy(h)
           THEN /\ ret' = Ret("undo", "", FALSE, "", False, 0)
                /\ UNCHANGED <<storage, state, peer>>
         ELSE IF ~h.isArr THEN Throws("undo", "", "TypeError")
         ELSE /\ state' = s2
              /\ storage' = save(storage, s2)
              /\ ret' = Ret("undo", "", FALSE, "", True, saveWrites(storage))
              /\ UNCHANGED peer

\* Tracker.updateExpiry
UpdateExpiry(date) ==
  LET s1 == [state EXCEPT !.expiry = Str(date)]
  IN  /\ IF ~state.isObj THEN Throws("updateExpiry", date, "TypeError")
         ELSE /\ state' = s1
              /\ storage' = save(storage, s1)
              /\ ret' = Ret("updateExpiry", date, FALSE, "", Undef,
                            saveWrites(storage))
              /\ UNCHANGED peer

\* importData without the test of history
ImportTextNoHistoryTest(text, op) ==
  LET p == JSONparse(text)
      data == p.val
  IN  /\ IF p.threw THEN Throws(op, text, "SyntaxError")
         ELSE IF ~data.isObj /\ data.prim.k = "null"
           THEN Throws(op, text, "TypeError")
         ELSE IF ~data.isObj \/ Falsy(data.version)
           THEN Throws(op, text, "Invalid data format")
         ELSE /\ state' = data
              /\ storage' = save(storage, data)
              /\ ret' = Ret(op, text, FALSE, "", Undef, saveWrites(storage))
              /\ UNCHANGED peer

\* importData applied to a text, the call being recorded under the name op
ImportText(text, op) ==
  LET p == JSONparse(text)
      data == p.val
  IN  /\ IF p.threw THEN Throws(op, text, "SyntaxError")
         ELSE IF ~data.isObj /\ data.prim.k = "null"
           THEN Throws(op, text, "TypeError")
         ELSE IF ~data.isObj \/ Falsy(data.version) \/ ~data.history.isArr
           THEN Throws(op, text, "Invalid data format")
         ELSE /\ state' = data
              /\ storage' = save(storage, data)
              /\ ret' = Ret(op, text, FALSE, "", Undef, saveWrites(storage))
              /\ UNCHANGED peer

\* Tracker.importData
ImportData(text) == ImportText(text, "importData")

\* Tracker.exportData; the text returned is exportData(state)
ExportData ==
  /\ ret' = Ret("exportData", "", FALSE, "", Undef, 0)
  /\ UNCHANGED <<storage, state, peer>>

\* importData(exportData())
RoundTrip == ImportText(exportData(state), "roundTrip")

\* Tracker.recomputeBalance called by itself
RecomputeBalance ==
  LET r == recomputeBalance(state)
  IN  /\ state' = r.val
      /\ ret' = Ret("recomputeBalance", "", r.threw,
                    IF r.threw THEN "TypeError" ELSE "", Undef, 0)
      /\ UNCHANGED <<storage, peer>>

\* an assignment to tracker.state.balance from outside the Tracker
CorruptValues == {IntV(0), Num(1, 3), NaN}

CorruptBalance(v) ==
  /\ state.isObj
  /\ state' = [state EXCEPT !.balance = v]
  /\ ret' = Ret("corrupt", "", FALSE, "", Undef, 0)
  /\ UNCHANGED <<storage, peer>>

\* the caller turns to the other Tracker on the same storage: its next
\* calls are on that instance
SwitchTracker ==
  /\ state' = peer
  /\ peer' = state
  /\ UNCHANGED <<storage, ret>>

(***************************************************************************)
(* Utils.evalMath called on its own, with every text of at most MaxTextLen *)
(* characters over EvalChars.                                              *)
(***************************************************************************)
EvalChars == {"0", "1", "+", "-", "*", "/", "(", ")", ".", " ", ";"}

RECURSIVE TextsOfLen(_)
TextsOfLen(n) ==
  IF n = 0 THEN {""}
  ELSE {s \o c : s \in TextsOfLen(n - 1), c \in EvalChars}

EvalTexts == UNION {TextsOfLen(n) : n \in 0..MaxTextLen}

\* a text that is about to be given to evalMath
TextGiven(text) == Ret("text", text, FALSE, "", Undef, 0)

EvalRet(text, r) == Ret("evalMath", text, r.threw, r.err, r.v, 0)

\* the call Utils.evalMath(text) of the text given
EvalMath ==
  /\ ret.op = "text"
  /\ ret' = EvalRet(ret.arg, evalMath(ret.arg))
  /\ UNCHANGED <<storage, state, peer>>

(***************************************************************************)
(* Specifications.                                                         *)
(***************************************************************************)
Init ==
  /\ storage \in InitialStorages
  /\ state = load(storage)
  /\ peer = NoTracker
  /\ ret = Ret("constructor", "", FALSE, "", Undef, 0)

Next ==
  \/ \E e \in ExprTexts, d \in Descs, ts \in Timestamps : AddEntry(e, d, ts)
  \/ Undo
  \/ \E d \in Dates : UpdateExpiry(d)
  \/ \E t \in PayloadTexts : ImportData(t)
  \/ ExportData
  \/ RoundTrip
  \/ Construct

Spec == Init /\ [][Next]_vars

\* a Tracker that starts in the default state, and addEntry calls only
InitDefault ==
  /\ storage \in InitialStorages
  /\ load(storage) = DefaultState
  /\ state = load(storage)
  /\ peer = NoTracker
  /\ ret = Ret("constructor", "", FALSE, "", Undef, 0)

NextAdd ==
  \E e \in ExprTexts, d \in Descs, ts \in Timestamps : AddEntry(e, d, ts)

SpecAdd == InitDefault /\ [][NextAdd]_vars

\* addEntry, recomputeBalance and outside writes of the balance
NextRecompute ==
  \/ NextAdd
  \/ RecomputeBalance
  \/ \E v \in CorruptValues : CorruptBalance(v)

SpecRecompute == InitDefault /\ [][NextRecompute]_vars

\* the Tracker methods that keep the ledger, from the default state
NextLedger ==
  \/ NextAdd
  \/ Undo
  \/ RecomputeBalance
  \/ \E d \in Dates : UpdateExpiry(d)
  \/ ExportData

SpecLedger == InitDefault /\ [][NextLedger]_vars

\* addEntry, undo and updateExpiry, from the default state
NextUndo ==
  \/ NextAdd
  \/ Undo
  \/ \E d \in Dates : UpdateExpiry(d)

SpecUndo == InitDefault /\ [][NextUndo]_vars

\* addEntry of signed amounts, from the default state
NextAmounts ==
  \E e \in AmountTexts, d \in Descs, ts \in Timestamps : AddEntry(e, d, ts)

SpecAmounts == InitDefault /\ [][NextAmounts]_vars

\* two Trackers constructed on one storage that holds nothing yet, their
\* calls never overlapping
InitShared ==
  /\ storage = Store(NoItem)
  /\ state = load(storage)
  /\ peer = load(storage)
  /\ ret = Ret("constructor", "", FALSE, "", Undef, 0)

NextShared ==
  \/ \E e \in SharedTexts, d \in Descs, ts \in Timestamps : AddEntry(e, d, ts)
  \/ Undo
  \/ \E d \in Dates : UpdateExpiry(d)
  \/ \E t \in SharedPayloads : ImportData(t)
  \/ SwitchTracker

SpecShared == InitShared /\ [][NextShared]_vars

\* Utils.evalMath alone, called once on a text of EvalTexts
InitEval ==
  /\ storage = NoStorage
  /\ state = load(storage)
  /\ peer = NoTracker
  /\ ret \in {TextGiven(t) : t \in EvalTexts}

NextEval == EvalMath

SpecEval == InitEval /\ [][NextEval]_vars


(***************************************************************************)
(* Properties.                                                             *)
(***************************************************************************)
HistoryOf(s) == s.history.items

HasHistory(s) == s.isObj /\ s.history.isArr

\* C1: starting from the default state, after every addEntry call the
\* balance equals round2 of the sum of the deltas of all history entries.
C1_BalanceIsRoundedSum ==
  state.balance = round2(SumDeltas(HistoryOf(state)))

\* C2: undo on a non-empty history returns true, removes exactly the last
\* entry, keeps the earlier entries as they were, and sets the balance to
\* round2 of the sum of the remaining deltas.
C2_UndoRestoresRoundedSum ==
  [][(ret'.op = "undo" /\ HasHistory(state) /\ HistoryOf(state) # <<>>)
       => /\ ~ret'.threw
          /\ ret'.v = True
          /\ HasHistory(state')
          /\ HistoryOf(state')
               = SubSeq(HistoryOf(state), 1, Len(HistoryOf(state)) - 1)
          /\ state'.balance = round2(SumDeltas(HistoryOf(state')))]_vars

\* C3: undo on an empty history returns false and changes nothing: the
\* balance, expiry, version and history stay as they were and nothing is
\* written to the storage.
C3_UndoOnEmptyHasNoEffect ==
  [][(ret'.op = "undo" /\ HasHistory(state) /\ HistoryOf(state) = <<>>)
       => /\ ~ret'.threw
          /\ ret'.v = False
          /\ state' = state
          /\ storage' = storage
          /\ ret'.writes = 0]_vars

C3_Witness ==
  /\ ret.op = "undo"
  /\ ret.v = False
  /\ HasHistory(state)
  /\ HistoryOf(state) = <<>>
  /\ storage.present
  /\ storage.item.has

\* C4: addEntry is all-or-nothing: a call that fails leaves the state and
\* the stored snapshot as they were; a call that succeeds appends exactly
\* one entry, updates the balance and makes one persistence write (the
\* write being to the storage collaborator the Tracker has).
C4_AddEntryAllOrNothing ==
  [][ret'.op = "addEntry"
       => IF ret'.threw THEN state' = state /\ storage' = storage
          ELSE /\ HasHistory(state) /\ HasHistory(state')
               /\ Len(HistoryOf(state')) = Len(HistoryOf(state)) + 1
               /\ SubSeq(HistoryOf(state'), 1, Len(HistoryOf(state)))
                    = HistoryOf(state)
               /\ state'.balance
                    = HistoryOf(state')[Len(HistoryOf(state'))].balance
               /\ state'.expiry = state.expiry
               /\ state'.version = state.version
               /\ ret'.writes = IF storage.present THEN 1 ELSE 0]_vars

\* the payload cannot be parsed, has no truthy version, or has a history
\* that is not a sequence
InvalidPayload(t) ==
  \/ t.fmt = "garbage"
  \/ ~t.doc.isObj
  \/ Falsy(t.doc.version)
  \/ ~t.doc.history.isArr

\* C5: importData of an invalid payload fails and leaves the state and the
\* stored snapshot as they were; importData of a valid payload makes the
\* state the payload, whole, and persists it.
C5_ImportReplacesOrFails ==
  [][ret'.op = "importData"
       => IF InvalidPayload(ret'.arg)
            THEN ret'.threw /\ state' = state /\ storage' = storage
          ELSE /\ ~ret'.threw
               /\ state' = ret'.arg.doc
               /\ storage.present
                    => /\ storage'.item.has
                       /\ storage'.item.text.fmt # "garbage"
                       /\ storage'.item.text.doc = state']_vars

C5_Witness ==
  /\ ret.op = "importData"
  /\ ret.threw
  /\ ret.err = "Invalid data format"
  /\ HasHistory(state)
  /\ Len(HistoryOf(state)) >= 2
  /\ storage.present
  /\ storage.item.has

\* C6: recomputeBalance sets the balance to round2 of the sum of all
\* history deltas whatever the balance was, and a second call in a row
\* leaves the balance of the first.
C6_RecomputeGivesRoundedSum ==
  [][ret'.op = "recomputeBalance"
       => /\ ~ret'.threw
          /\ state'.balance = round2(SumDeltas(HistoryOf(state)))
          /\ recomputeBalance(state').val.balance = state'.balance]_vars

\* C7: in every reachable state importData(exportData()) succeeds and
\* leaves the balance, the expiry and the history as they were.
C7_RoundTripIsIdentity ==
  [][ret'.op = "roundTrip"
       => /\ ~ret'.threw
          /\ state'.balance = state.balance
          /\ state'.expiry = state.expiry
          /\ state'.history = state.history]_vars

\* C8: after every successful mutating operation on a Tracker that has a
\* storage, the stored snapshot deserializes to the in-memory state, and a
\* new Tracker on the same storage starts with the same balance, expiry
\* and history.
C8_WriteThrough ==
  (/\ ret.op \in {"addEntry", "undo", "updateExpiry", "importData"}
   /\ ~ret.threw
   /\ ret.op = "undo" => ret.v = True
   /\ storage.present)
    => /\ storage.item.has
       /\ ~JSONparse(storage.item.text).threw
       /\ JSONparse(storage.item.text).val = state
       /\ ~storage.unreadable
            => /\ load(storage).balance = state.balance
               /\ load(storage).expiry = state.expiry
               /\ load(storage).history = state.history

\* C9: a constructed Tracker has a truthy version and a sequence-valued
\* history, and its state is the default state whenever the stored text
\* parses but fails validation.
C9_InvalidSnapshotGivesDefault ==
  ret.op = "constructor"
    => /\ state.isObj /\ ~Falsy(state.version) /\ state.history.isArr
       /\ (/\ storage.present /\ ~storage.unreadable /\ storage.item.has
           /\ storage.item.text.fmt # "garbage"
           /\ InvalidPayload(storage.item.text))
            => state = DefaultState

\* C10: the constructor never raises: without a storage, with a read that
\* throws, with no value under the key or with a stored text that cannot
\* be parsed it completes and the state is the default state.
C10_ConstructorFallsBack ==
  ret.op = "constructor"
    => /\ ~ret.threw
       /\ (\/ ~storage.present
           \/ storage.unreadable
           \/ ~storage.item.has
           \/ JSONparse(storage.item.text).threw)
            => /\ state.isObj
               /\ state.version = IntV(1)
               /\ state.balance = IntV(0)
               /\ state.expiry = Str(todayISO)
               /\ state.history = Arr(<<>>)

C10_Witness ==
  /\ ret.op = "constructor"
  /\ storage.present
  /\ storage.unreadable
  /\ storage.item.has
  /\ state = DefaultState

(***************************************************************************)
(* Standard infix arithmetic, the reference evaluate is compared with:     *)
(*   Expr   ::= Term { ("+" | "-") Term }                                  *)
(*   Term   ::= Factor { ("*" | "/") Factor }                              *)
(*   Factor ::= ("+" | "-") Factor | Number | "(" Expr ")"                 *)
(*   Number ::= digits [ "." [ digits ] ] | "." digits     (decimal)       *)
(* with whitespace allowed between the tokens.  A result has ok (the text  *)
(* is well formed so far), def (no division by zero took place), the       *)
(* value v and the index i after the part read.                            *)
(***************************************************************************)
ArithFail == [ok |-> FALSE, def |-> FALSE, v |-> IntV(0), i |-> 0]
ArithVal(def, v, i) == [ok |-> TRUE, def |-> def, v |-> v, i |-> i]

RECURSIVE ArithExpr(_, _), ArithExprRest(_, _), ArithTerm(_, _),
          ArithTermRest(_, _), ArithFactor(_, _)

ArithNumber(s, i) ==
  LET ie == ScanDigits(s, i)
      hasDot == Ch(s, ie) = "."
      fe == IF hasDot THEN ScanDigits(s, ie + 1) ELSE ie
      fl == IF hasDot THEN fe - ie - 1 ELSE 0
  IN  IF (ie - i) + fl = 0 THEN ArithFail
      ELSE ArithVal(TRUE,
                    Num(DigitsValue(s, i, ie, 10) * Pow10(fl)
                          + DigitsValue(s, ie + 1, fe, 10), Pow10(fl)),
                    fe)

ArithCloseAt(s, r, j) ==
  IF Ch(s, j) = ")" THEN ArithVal(r.def, r.v, j + 1) ELSE ArithFail

ArithClose(s, r) ==
  IF r.ok THEN ArithCloseAt(s, r, SkipSpace(s, r.i)) ELSE ArithFail

ArithSigned(o, r) ==
  IF ~r.ok THEN ArithFail
  ELSE IF o = "-" THEN ArithVal(r.def, NumNeg(r.v), r.i)
  ELSE r

ArithFactorAt(s, i) ==
  IF Ch(s, i) \in {"+", "-"} THEN ArithSigned(Ch(s, i), ArithFactor(s, i + 1))
  ELSE IF Ch(s, i) = "(" THEN ArithClose(s, ArithExpr(s, i + 1))
  ELSE ArithNumber(s, i)

ArithFactor(s, i) == ArithFactorAt(s, SkipSpace(s, i))

ArithApply(o, l, r) ==
  IF ~l.def \/ ~r.def \/ (o = "/" /\ r.v.n = 0)
    THEN ArithVal(FALSE, IntV(0), r.i)
  ELSE ArithVal(TRUE,
                CASE o = "+" -> NumAdd(l.v, r.v)
                  [] o = "-" -> NumAdd(l.v, NumNeg(r.v))
                  [] o = "*" -> NumMul(l.v, r.v)
                  [] OTHER -> NumDiv(l.v, r.v),
                r.i)

ArithTermStep(s, o, l, r) ==
  IF r.ok THEN ArithTermRest(s, ArithApply(o, l, r)) ELSE ArithFail

ArithTermOp(s, l, j) ==
  IF Ch(s, j) \in {"*", "/"}
    THEN ArithTermStep(s, Ch(s, j), l, ArithFactor(s, j + 1))
  ELSE l

ArithTermRest(s, l) ==
  IF l.ok THEN ArithTermOp(s, l, SkipSpace(s, l.i)) ELSE l

ArithTerm(s, i) == ArithTermRest(s, ArithFactor(s, i))

ArithExprStep(s, o, l, r) ==
  IF r.ok THEN ArithExprRest(s, ArithApply(o, l, r)) ELSE ArithFail

ArithExprOp(s, l, j) ==
  IF Ch(s, j) \in {"+", "-"}
    THEN ArithExprStep(s, Ch(s, j), l, ArithTerm(s, j + 1))
  ELSE l

ArithExprRest(s, l) ==
  IF l.ok THEN ArithExprOp(s, l, SkipSpace(s, l.i)) ELSE l

ArithExpr(s, i) == ArithExprRest(s, ArithTerm(s, i))

ArithWhole(s, r) ==
  IF r.ok /\ SkipSpace(s, r.i) = Len(s) + 1 THEN r ELSE ArithFail

\* the text as a whole: ok tells that it is a well-formed expression
Arith(text) == ArithWhole(text, ArithExpr(text, 1))

\* the characters the contract of evaluate allows
ContractChars ==
  {"0", "1", "2", "3", "4", "5", "6", "7", "8", "9",
   "+", "-", "*", "/", "(", ")", ".", " "}

HasDisallowedChar(text) ==
  \E i \in 1..Len(text) : SubSeq(text, i, i) \notin ContractChars

\* C11: evaluate rejects every text that contains a character outside
\* {0-9, +, -, *, /, (, ), ., whitespace} at the whitelist test, before the
\* text is evaluated: the call throws the rejection of that test and
\* returns no value.
C11_DisallowedTextIsRejected ==
  (ret.op = "evalMath" /\ HasDisallowedChar(ret.arg))
    => ret.threw /\ ret.err = "bad" /\ ret.v = Undef

C11_Witness ==
  /\ ret.op = "evalMath"
  /\ ret.arg = "1;1"
  /\ ret.threw
  /\ ret.err = "bad"

C12_Agrees(r, a) ==
  IF a.ok THEN a.def => (~r.threw /\ r.v = a.v)
  ELSE r.threw

\* C12: for a well-formed arithmetic text evaluate returns the value of
\* standard infix arithmetic (nothing is required of a text that divides
\* by zero), and for every other text of whitelisted characters it fails.
C12_EvaluateIsInfixArithmetic ==
  (ret.op = "evalMath" /\ ~HasDisallowedChar(ret.arg))
    => C12_Agrees(ret, Arith(ret.arg))

IsFinite(v) == v.k = "num"

LastEntry(s) == HistoryOf(s)[Len(HistoryOf(s))]

\* C13: from the default state, after any sequence of addEntry, undo,
\* recomputeBalance and updateExpiry a finite balance is an exact multiple
\* of 0.01.
C13_BalanceHasTwoDecimals ==
  IsFinite(state.balance) => 100 % state.balance.d = 0

\* C14: addEntry rounds balance + delta half away from zero: the new
\* balance is round2 of the sum, for negative sums as for positive ones.
C14_RoundsHalfAwayFromZero ==
  [][(ret'.op = "addEntry" /\ ~ret'.threw)
       => state'.balance = round2(JsAdd(state.balance, ret'.v))]_vars

\* C15: across a step of addEntry, undo, recomputeBalance, updateExpiry or
\* exportData the history is unchanged, or has one more entry at its end
\* (addEntry), or has lost its last entry (undo); the entries that stay are
\* the same, field for field.
C15_HistoryAppendOnly ==
  [][ret'.op \in {"addEntry", "undo", "recomputeBalance", "updateExpiry",
                  "exportData"}
       => \/ state'.history = state.history
          \/ /\ ret'.op = "addEntry"
             /\ HasHistory(state) /\ HasHistory(state')
             /\ Len(HistoryOf(state')) = Len(HistoryOf(state)) + 1
             /\ SubSeq(HistoryOf(state'), 1, Len(HistoryOf(state)))
                  = HistoryOf(state)
          \/ /\ ret'.op = "undo"
             /\ HasHistory(state) /\ HasHistory(state')
             /\ Len(HistoryOf(state)) >= 1
             /\ HistoryOf(state')
                  = SubSeq(HistoryOf(state), 1, Len(HistoryOf(state)) - 1)]_vars

C15_Witness ==
  /\ ret.op = "undo"
  /\ ret.v = True
  /\ HasHistory(state)
  /\ Len(HistoryOf(state)) = 2
  /\ HistoryOf(state)[1].expr # HistoryOf(state)[2].expr

\* the text an entry keeps for a raw text: trimmed, and with "+" in front
\* unless it starts with one of + - * /
C16_Normalized(raw) ==
  IF SubSeq(Trim(raw), 1, 1) \in {"+", "-", "*", "/"} THEN Trim(raw)
  ELSE "+" \o Trim(raw)

\* C16: the entry a successful addEntry(rawText, description) appends has
\* as expr the normalized rawText, as delta the value of evaluating that
\* expr, which is the value addEntry returns, and as balance the balance
\* of the state after the call.
C16_EntryRecordsTheCall ==
  [][(ret'.op = "addEntry" /\ ~ret'.threw)
       => /\ HasHistory(state')
          /\ Len(HistoryOf(state')) = Len(HistoryOf(state)) + 1
          /\ LastEntry(state').expr = Str(C16_Normalized(ret'.arg))
          /\ ~evalMath(LastEntry(state').expr.t).threw
          /\ LastEntry(state').delta = evalMath(LastEntry(state').expr.t).v
          /\ ret'.v = LastEntry(state').delta
          /\ LastEntry(state').balance = state'.balance]_vars

C16_Witness ==
  /\ ret.op = "addEntry"
  /\ ~ret.threw
  /\ ret.arg = " 0.015 "
  /\ HasHistory(state)
  /\ Len(HistoryOf(state)) = 2
  /\ LastEntry(state).expr = Str("+0.015")
  /\ HistoryOf(state)[1].expr = Str("-0.005")

\* C17: whenever the storage can be observed between the calls of the
\* Trackers that share it, the value under the key is absent or is the
\* serialization of the whole state (version, balance, expiry and history
\* together) of one of the Trackers, never fields of both.
C17_StoredSnapshotIsWhole ==
  storage.item.has
    => \/ storage.item.text = JSONstringify(state)
       \/ storage.item.text = JSONstringify(peer)

C17_Witness ==
  /\ storage.item.has
  /\ storage.item.text = JSONstringify(peer)
  /\ HasHistory(state) /\ HasHistory(peer)
  /\ Len(HistoryOf(state)) = 2
  /\ Len(HistoryOf(peer)) = 1
  /\ state.expiry # peer.expiry
  /\ state.balance # peer.balance

\* C18: a successful addEntry followed at once by undo leaves the balance,
\* the expiry and the history as they were before the addEntry.
C18_AddThenUndoIsIdentity ==
  [][(ret'.op = "addEntry" /\ ~ret'.threw)
       => /\ undone(state').balance = state.balance
          /\ undone(state').expiry = state.expiry
          /\ undone(state').history = state.history]_vars

\* C19: from the default state, after any sequence of addEntry, undo and
\* updateExpiry the balance is the balance recorded in the last history
\* entry, and 0 when the history is empty.
C19_BalanceIsLastRecorded ==
  /\ HasHistory(state)
  /\ state.balance = IF HistoryOf(state) = <<>> THEN IntV(0)
                     ELSE LastEntry(state).balance

\* C20: from the default state, after any sequence of addEntry and undo the
\* balance and the delta of every entry are finite numbers: addEntry
\* rejects a text whose value is not one.
C20_AmountsAreFinite ==
  /\ IsFinite(state.balance)
  /\ \A i \in 1..Len(HistoryOf(state)) : IsFinite(HistoryOf(state)[i].delta)


====
